---- MODULE Spec2Model ----
(***************************************************************************)
(* Model of the fan-out commands of torus-cli (src/cmd/teams.go):          *)
(* teamsListCmd, teamMembersListCmd, teamsRemoveCmd, teamsAddCmd,          *)
(* orgsList/orgsListCmd and orgsMembersListCmd.                            *)
(*                                                                         *)
(* One behaviour is one invocation of one command.  The caller (worker 0)  *)
(* starts up to three goroutines (workers 1..3, numbered in the order of   *)
(* their go statements), waits on a sync.WaitGroup and then checks the     *)
(* error slots and renders.  Every access of a goroutine to a variable it  *)
(* shares with another goroutine is a step of its own, so that every       *)
(* interleaving of the accesses is a behaviour of the model.  Accesses are *)
(* sequentially consistent; torn reads of a racy interface value are not   *)
(* modelled.                                                               *)
(*                                                                         *)
(* Spec and FairSpec are the commands from their start, on short lists.    *)
(* SpecTeams and SpecMembers are the list commands from the point where    *)
(* the caller has joined and every fetch has succeeded, on longer lists.   *)
(* SpecFn applies isMachineTeam, the sort of a user's teams and UI.Child   *)
(* (src/ui/ui.go) to arguments of their own.                               *)
(***************************************************************************)
EXTENDS Integers, Sequences, FiniteSets, TLC

VARIABLES
    cmd,      \* the command invoked
    mpc,      \* position of the caller
    pc,       \* position of each goroutine
    wg,       \* counter of each sync.WaitGroup
    ev,       \* the error variables (sErr, tErr, mErr, oErr, uErr, err)
    dv,       \* the result variables (teams, memberships, session, ...)
    out,      \* what was printed on stdout
    ret,      \* the value the command returned
    calls,    \* history: number of times each remote call was issued
    failed,   \* history: the goroutines whose remote call returned an error
    signals,  \* history: number of Done() calls of each goroutine
    joined,   \* history: the Wait() calls that have returned
    writers,  \* history: the goroutines that wrote each shared variable
    reads,    \* history: each read of a shared variable, with the goroutines
              \*          that had not yet signalled when it happened
    app       \* a function of the packages applied on its own: its name,
              \* its arguments and, once it has returned, its result

cmdvars == <<cmd, mpc, pc, wg, ev, dv, out, ret, calls, failed, signals,
             joined, writers, reads>>
vars == <<cmdvars, app>>

-----------------------------------------------------------------------------
(* Bounds of the model *)

\* longest team list a remote call returns
MaxTeams == 1
\* longest membership list a remote call returns
MaxMems == 1
\* longest org list a remote call returns
MaxOrgs == 3
\* longest profile list a remote call returns
MaxProfiles == 2
\* largest indent of a UI and largest indent added by Child
MaxIndent == 2
\* the views: longest team list of teamsListCmd
ViewMaxRows == 3
\* the views: longest membership list of the session's user in teamsListCmd
ViewMaxOwn == 2
\* the views: longest team list of orgsMembersListCmd
ViewMaxTeams == 3
\* the views: longest membership list of a team or an org
ViewMaxMems == 3

-----------------------------------------------------------------------------
(* Values *)

Commands == {"teamsList", "teamMembersList", "teamsRemove", "teamsAdd",
             "orgsList", "orgsMembersList"}

Workers == {1, 2, 3}
Caller == 0

Barriers == {"getMemberships", "display", "getMembers", "wait", "wg",
             "getMembersTeamsSession"}

ErrVars == {"sErr", "tErr", "mErr", "oErr", "uErr", "err"}
DataVars == {"teams", "memberships", "session", "memberOf", "orgs",
             "org", "team", "user"}
SharedVars == ErrVars \cup DataVars

CallNames == {"Session.Who", "Teams.GetByOrg", "Memberships.List",
              "Profiles.ListByID", "Orgs.GetByName", "Teams.GetByName",
              "Profiles.ListByName", "Memberships.Delete",
              "Memberships.Create", "Orgs.List", "Teams.List"}

\* An error value: who produced it (0: the caller) and its message.
Nil == [by |-> 0, msg |-> "nil"]
Err(w, m) == [by |-> w, msg |-> m]

Users == {"U1", "U2"}
NilSession == [user |-> "nil", type |-> "nil"]
Sessions == {[user |-> u, type |-> "user"] : u \in Users}
            \cup {[user |-> "M1", type |-> "machine"]}

\* The teams of the org on the server, one of each kind.
TeamUniverse ==
    { [id |-> "A", type |-> "user",    name |-> "admin"],
      [id |-> "B", type |-> "machine", name |-> "-"],
      [id |-> "C", type |-> "system",  name |-> "machine-team"] }
TeamIDs == {t.id : t \in TeamUniverse}

\* A larger org: a second user team and a system team that is no machine role.
ViewTeamUniverse ==
    TeamUniverse \cup
    { [id |-> "D", type |-> "user",   name |-> "dev"],
      [id |-> "E", type |-> "system", name |-> "owner"] }

SeqsUpTo(S, n) == UNION {[1..k -> S] : k \in 0..n}
Range(s) == {s[i] : i \in DOMAIN s}
NoDup(s) == \A i, j \in DOMAIN s : i # j => s[i].id # s[j].id

\* every user is visited, whatever the keys of the map
OrdersOfAllUsers(S) ==
    {s \in [1..Cardinality(Users) -> Users] :
        \A i, j \in DOMAIN s : i # j => s[i] # s[j]}

\* the orders in which "for id := range membershipUserIDs" may visit a map
Orders(S) ==
    {s \in [1..Cardinality(S) -> S] :
        \A i, j \in DOMAIN s : i # j => s[i] # s[j]}

TeamLists == {s \in SeqsUpTo(TeamUniverse, MaxTeams) : NoDup(s)}
Memberships == [owner : Users, team : TeamIDs]
MembershipLists == SeqsUpTo(Memberships, MaxMems)
OrgNames == Users \cup {"acme", "beta"}
OrgLists == {s \in SeqsUpTo(OrgNames, MaxOrgs) :
               \A i, j \in DOMAIN s : i # j => s[i] # s[j]}
\* a profile is identified with its user: ID and username go together, and
\* a list of profiles holds a profile at most once
ProfileLists == {s \in SeqsUpTo(Users, MaxProfiles) :
                   \A i, j \in DOMAIN s : i # j => s[i] # s[j]}

-----------------------------------------------------------------------------
(* sync.WaitGroup and the history variables *)

\* wg.Add(n) of each barrier
GetMembershipsAdd == 1
\* display.Add(1): one goroutine too few is counted
DisplayAddShort == GetMembershipsAdd
DisplayAdd == 2
GetMembersAdd == 2
RemoveWaitAdd == 2
AddWaitAdd == 2
OrgsWgAdd == 2
GetMembersTeamsSessionAdd == 3

Pending == {w \in Workers : pc[w] # "none" /\ signals[w] = 0}

\* the barrier on which goroutine w of command c calls Done()
BarrierOf(c, w) ==
    CASE c = "teamsList" -> IF w = 1 THEN "getMemberships" ELSE "display"
      [] c = "teamMembersList" -> "getMembers"
      [] c \in {"teamsRemove", "teamsAdd"} -> "wait"
      [] c = "orgsList" -> "wg"
      [] c = "orgsMembersList" -> "getMembersTeamsSession"

\* goroutine w calls Done() on its barrier
Done(w) ==
    /\ wg' = [wg EXCEPT ![BarrierOf(cmd, w)] = @ - 1]
    /\ signals' = [signals EXCEPT ![w] = @ + 1]

\* b.Wait() returns to worker w: the counter of b is zero
Wait(w, b) ==
    /\ wg[b] = 0
    /\ joined' = joined \cup {[w |-> w, b |-> b]}

\* worker w reads the shared variables rs and writes the shared variables ws
Access(w, rs, ws) ==
    /\ reads' = reads \cup
          {[var |-> v, reader |-> w, pending |-> Pending \ {w}] : v \in rs}
    /\ writers' = [v \in SharedVars |->
                     IF v \in ws /\ w # Caller THEN writers[v] \cup {w}
                     ELSE writers[v]]

\* a remote call c issued by worker w returns, with an error iff ~ok
Call(w, c, ok) ==
    /\ calls' = [calls EXCEPT ![c] = @ + 1]
    /\ failed' = IF ok THEN failed ELSE failed \cup {w}

\* the caller issues the remote calls cs, one after the other
CallerCalls(cs) ==
    /\ calls' = [c \in CallNames |-> IF c \in cs THEN calls[c] + 1 ELSE calls[c]]
    /\ failed' = failed

Goto(w, l) == pc' = [pc EXCEPT ![w] = l]

-----------------------------------------------------------------------------
(* errs.MultiError: the nil arguments dropped, the others kept in order;   *)
(* one error is forwarded as it is, two or more are wrapped.               *)

NonNil(es) == SelectSeq(es, LAMBDA e : e # Nil)

MultiError(es) ==
    [kind |-> IF Len(NonNil(es)) = 1 THEN "single" ELSE "aggregate",
     errs |-> NonNil(es)]

Returned(e) == [kind |-> "single", errs |-> <<e>>]
ReturnedNil == [kind |-> "nil", errs |-> <<>>]
Running == [kind |-> "running", errs |-> <<>>]
Panicked == [kind |-> "panic", errs |-> <<>>]

EmptyMap == [k \in {} |-> <<>>]
Put(m, k, v) == [x \in DOMAIN m \cup {k} |-> IF x = k THEN v ELSE m[x]]

NoOutput == [rows |-> <<>>, summary |-> -1, notes |-> <<>>]

\* the result variables before any goroutine has written them
NoData ==
    [teams |-> <<>>, memberships |-> <<>>, session |-> NilSession,
     memberOf |-> {}, orgs |-> <<>>, org |-> "nil", team |-> "nil",
     user |-> "nil", teamsIdx |-> EmptyMap, userTeamIdx |-> EmptyMap,
     membershipUserIDs |-> {}, userIDs |-> <<>>, users |-> <<>>]

\* no function is applied on its own during a command
NoApp == [fn |-> "none", arg |-> <<>>, res |-> <<>>, returned |-> FALSE]

\* every system team is taken for a machine role, whatever its name
isMachineTeamAnySystem(team) ==
    team.type = "machine" \/ team.type = "system"

\* isMachineTeam: the team is a machine role
isMachineTeam(team) ==
    \/ team.type = "machine"
    \/ team.type = "system" /\ team.name = "machine-team"

-----------------------------------------------------------------------------
(* teamsListCmd *)

TLStart ==
    /\ cmd = "teamsList" /\ mpc = "start"
    /\ wg' = [wg EXCEPT !["getMemberships"] = GetMembershipsAdd,
                        !["display"] = DisplayAdd]
    /\ pc' = [pc EXCEPT ![1] = "L121", ![2] = "L126", ![3] = "L131"]
    /\ mpc' = "L143"
    /\ UNCHANGED <<app, joined, cmd, ev, dv, out, ret, calls, failed, signals,
                   writers, reads>>

\* session, sErr = client.Session.Who(c)
TLSessionWho ==
    /\ cmd = "teamsList" /\ pc[1] = "L121"
    /\ \E s \in Sessions \cup {NilSession} :
          /\ Call(1, "Session.Who", s # NilSession)
          /\ dv' = [dv EXCEPT !.session = s]
          /\ ev' = [ev EXCEPT !.sErr =
                       IF s = NilSession THEN Err(1, "Session.Who") ELSE Nil]
    /\ Access(1, {}, {"session", "sErr"})
    /\ Goto(1, "L122")
    /\ UNCHANGED <<app, joined, cmd, mpc, wg, out, ret, signals>>

\* getMemberships.Done()
TLSessionDone ==
    /\ cmd = "teamsList" /\ pc[1] = "L122"
    /\ Done(1)
    /\ Goto(1, "done")
    /\ UNCHANGED <<app, joined, cmd, mpc, ev, dv, out, ret, calls, failed,
                   writers, reads>>

\* the call is issued a second time when it failed the first time
TLTeamsGetRetry ==
    /\ cmd = "teamsList" /\ pc[2] = "L126"
    /\ \/ \E ts \in TeamLists :
             /\ Call(2, "Teams.GetByOrg", TRUE)
             /\ dv' = [dv EXCEPT !.teams = ts]
             /\ ev' = [ev EXCEPT !.tErr = Nil]
             /\ Goto(2, "L127")
       \/ /\ Call(2, "Teams.GetByOrg", FALSE)
          /\ dv' = [dv EXCEPT !.teams = <<>>]
          /\ ev' = [ev EXCEPT !.tErr = Err(2, "Teams.GetByOrg")]
          /\ Goto(2, IF calls["Teams.GetByOrg"] = 0 THEN "L126" ELSE "L127")
    /\ Access(2, {}, {"teams", "tErr"})
    /\ UNCHANGED <<app, joined, cmd, mpc, wg, out, ret, signals>>

\* teams, tErr = client.Teams.GetByOrg(c, org.ID)
TLTeamsGet ==
    /\ cmd = "teamsList" /\ pc[2] = "L126"
    /\ \/ \E ts \in TeamLists :
             /\ Call(2, "Teams.GetByOrg", TRUE)
             /\ dv' = [dv EXCEPT !.teams = ts]
             /\ ev' = [ev EXCEPT !.tErr = Nil]
       \/ /\ Call(2, "Teams.GetByOrg", FALSE)
          /\ dv' = [dv EXCEPT !.teams = <<>>]
          /\ ev' = [ev EXCEPT !.tErr = Err(2, "Teams.GetByOrg")]
    /\ Access(2, {}, {"teams", "tErr"})
    /\ Goto(2, "L127")
    /\ UNCHANGED <<app, joined, cmd, mpc, wg, out, ret, signals>>

\* display.Done()
TLTeamsDone ==
    /\ cmd = "teamsList" /\ pc[2] = "L127"
    /\ Done(2)
    /\ Goto(2, "done")
    /\ UNCHANGED <<app, joined, cmd, mpc, ev, dv, out, ret, calls, failed,
                   writers, reads>>

\* getMemberships.Wait()
TLDepWait ==
    /\ cmd = "teamsList" /\ pc[3] = "L131"
    /\ Wait(3, "getMemberships")
    /\ Goto(3, "L133")
    /\ UNCHANGED <<app, cmd, mpc, wg, ev, dv, out, ret, calls, failed, signals,
                   writers, reads>>

\* the dependent goroutine issues its call whatever sErr holds
TLDepCheckAlways ==
    /\ cmd = "teamsList" /\ pc[3] = "L133"
    /\ Access(3, {"sErr"}, {})
    /\ Goto(3, "L134")
    /\ UNCHANGED <<app, joined, cmd, mpc, wg, ev, dv, out, ret, calls, failed,
                   signals>>

\* the dependent goroutine returns without Done() when the session failed
TLDepCheckGiveUp ==
    /\ cmd = "teamsList" /\ pc[3] = "L133"
    /\ Access(3, {"sErr"}, {})
    /\ Goto(3, IF ev.sErr = Nil THEN "L134" ELSE "done")
    /\ UNCHANGED <<app, joined, cmd, mpc, wg, ev, dv, out, ret, calls, failed,
                   signals>>

\* if sErr == nil
TLDepCheck ==
    /\ cmd = "teamsList" /\ pc[3] = "L133"
    /\ Access(3, {"sErr"}, {})
    /\ Goto(3, IF ev.sErr = Nil THEN "L134" ELSE "L137")
    /\ UNCHANGED <<app, joined, cmd, mpc, wg, ev, dv, out, ret, calls, failed,
                   signals>>

\* memberships, sErr = client.Memberships.List(c, org.ID, nil, session.ID())
\* (memberships is a local of the goroutine)
TLDepList ==
    /\ cmd = "teamsList" /\ pc[3] = "L134"
    /\ \/ \E ms \in MembershipLists :
             /\ Call(3, "Memberships.List", TRUE)
             /\ dv' = [dv EXCEPT !.memberships = ms]
             /\ ev' = [ev EXCEPT !.sErr = Nil]
       \/ /\ Call(3, "Memberships.List", FALSE)
          /\ dv' = [dv EXCEPT !.memberships = <<>>]
          /\ ev' = [ev EXCEPT !.sErr = Err(3, "Memberships.List")]
    /\ Access(3, {"session"}, {"sErr"})
    /\ Goto(3, "L137")
    /\ UNCHANGED <<app, joined, cmd, mpc, wg, out, ret, signals>>

\* every team is marked, whatever the memberships
TLDepFillAllTeams ==
    /\ cmd = "teamsList" /\ pc[3] = "L137"
    /\ dv' = [dv EXCEPT !.memberOf = TeamIDs]
    /\ Access(3, {}, {"memberOf"})
    /\ Goto(3, "L140")
    /\ UNCHANGED <<app, joined, cmd, mpc, wg, ev, out, ret, calls, failed,
                   signals, reads>>

\* for _, m := range memberships { memberOf[*m.Body.TeamID] = true }
TLDepFill ==
    /\ cmd = "teamsList" /\ pc[3] = "L137"
    /\ dv' = [dv EXCEPT !.memberOf =
                 @ \cup {dv.memberships[i].team : i \in DOMAIN dv.memberships}]
    /\ Access(3, {}, IF dv.memberships = <<>> THEN {} ELSE {"memberOf"})
    /\ Goto(3, "L140")
    /\ UNCHANGED <<app, joined, cmd, mpc, wg, ev, out, ret, calls, failed,
                   signals, reads>>

\* display.Done()
TLDepDone ==
    /\ cmd = "teamsList" /\ pc[3] = "L140"
    /\ Done(3)
    /\ Goto(3, "done")
    /\ UNCHANGED <<app, joined, cmd, mpc, ev, dv, out, ret, calls, failed,
                   writers, reads>>

\* display.Wait()
TLJoin ==
    /\ cmd = "teamsList" /\ mpc = "L143"
    /\ Wait(Caller, "display")
    /\ mpc' = "L144"
    /\ UNCHANGED <<app, cmd, pc, wg, ev, dv, out, ret, calls, failed, signals,
                   writers, reads>>

\* if sErr != nil || tErr != nil { return errs.MultiError(...) }
TLCheck ==
    /\ cmd = "teamsList" /\ mpc = "L144"
    /\ Access(Caller, {"sErr", "tErr"}, {})
    /\ IF ev.sErr # Nil \/ ev.tErr # Nil
       THEN /\ ret' = MultiError(<<ev.sErr, ev.tErr,
                                   Err(Caller, "Error fetching teams list")>>)
            /\ mpc' = "done"
       ELSE /\ ret' = ret
            /\ mpc' = "L152"
    /\ UNCHANGED <<app, joined, cmd, pc, wg, ev, dv, out, calls, failed,
                   signals>>

\* the machine teams get a row as well
TLRowsUnfiltered(teams, memberOf) ==
    [i \in DOMAIN teams |->
       [name |-> teams[i].name, type |-> teams[i].type,
        isMember |-> teams[i].id \in memberOf]]

\* the table of the teams that are no machine teams, and the summary line
TLRows(teams, memberOf) ==
    LET shown == SelectSeq(teams, LAMBDA t : ~isMachineTeam(t))
    IN [i \in DOMAIN shown |->
          [name |-> shown[i].name, type |-> shown[i].type,
           isMember |-> shown[i].id \in memberOf]]

TLRender ==
    /\ cmd = "teamsList" /\ mpc = "L152"
    /\ Access(Caller, {"teams", "memberOf"}, {})
    /\ out' = [out EXCEPT !.rows = TLRows(dv.teams, dv.memberOf),
                          !.summary = Len(TLRows(dv.teams, dv.memberOf))]
    /\ ret' = ReturnedNil
    /\ mpc' = "done"
    /\ UNCHANGED <<app, joined, cmd, pc, wg, ev, dv, calls, failed, signals>>

TeamsList ==
    \/ TLStart \/ TLSessionWho \/ TLSessionDone \/ TLTeamsGet \/ TLTeamsDone
    \/ TLDepWait \/ TLDepCheck \/ TLDepList \/ TLDepFill \/ TLDepDone
    \/ TLJoin \/ TLCheck \/ TLRender

-----------------------------------------------------------------------------
(* teamMembersListCmd *)

TMStart ==
    /\ cmd = "teamMembersList" /\ mpc = "start"
    /\ wg' = [wg EXCEPT !["getMembers"] = GetMembersAdd]
    /\ pc' = [pc EXCEPT ![1] = "L227", ![2] = "L234"]
    /\ mpc' = "L238"
    /\ UNCHANGED <<app, joined, cmd, ev, dv, out, ret, calls, failed, signals,
                   writers, reads>>

\* memberships, mErr = client.Memberships.List(c, org.ID, team.ID, nil)
TMMemsList ==
    /\ cmd = "teamMembersList" /\ pc[1] = "L227"
    /\ \/ \E ms \in MembershipLists :
             /\ Call(1, "Memberships.List", TRUE)
             /\ dv' = [dv EXCEPT !.memberships = ms]
             /\ ev' = [ev EXCEPT !.mErr = Nil]
       \/ /\ Call(1, "Memberships.List", FALSE)
          /\ dv' = [dv EXCEPT !.memberships = <<>>]
          /\ ev' = [ev EXCEPT !.mErr = Err(1, "Memberships.List")]
    /\ Access(1, {}, {"memberships", "mErr"})
    /\ Goto(1, "L228")
    /\ UNCHANGED <<app, joined, cmd, mpc, wg, out, ret, signals>>

\* getMembers.Done()
TMMemsDone ==
    /\ cmd = "teamMembersList" /\ pc[1] = "L228"
    /\ Done(1)
    /\ Goto(1, "done")
    /\ UNCHANGED <<app, joined, cmd, mpc, ev, dv, out, ret, calls, failed,
                   writers, reads>>

\* session, sErr = client.Session.Who(c)
TMSessionWho ==
    /\ cmd = "teamMembersList" /\ pc[2] = "L234"
    /\ \E s \in Sessions \cup {NilSession} :
          /\ Call(2, "Session.Who", s # NilSession)
          /\ dv' = [dv EXCEPT !.session = s]
          /\ ev' = [ev EXCEPT !.sErr =
                       IF s = NilSession THEN Err(2, "Session.Who") ELSE Nil]
    /\ Access(2, {}, {"session", "sErr"})
    /\ Goto(2, "L235")
    /\ UNCHANGED <<app, joined, cmd, mpc, wg, out, ret, signals>>

\* getMembers.Done()
TMSessionDone ==
    /\ cmd = "teamMembersList" /\ pc[2] = "L235"
    /\ Done(2)
    /\ Goto(2, "done")
    /\ UNCHANGED <<app, joined, cmd, mpc, ev, dv, out, ret, calls, failed,
                   writers, reads>>

\* getMembers.Wait()
TMJoin ==
    /\ cmd = "teamMembersList" /\ mpc = "L238"
    /\ Wait(Caller, "getMembers")
    /\ mpc' = "L239"
    /\ UNCHANGED <<app, cmd, pc, wg, ev, dv, out, ret, calls, failed, signals,
                   writers, reads>>

\* if mErr != nil || sErr != nil { return errs.MultiError(mErr, sErr) }
TMCheck ==
    /\ cmd = "teamMembersList" /\ mpc = "L239"
    /\ Access(Caller, {"mErr", "sErr"}, {})
    /\ IF ev.mErr # Nil \/ ev.sErr # Nil
       THEN /\ ret' = MultiError(<<ev.mErr, ev.sErr>>)
            /\ mpc' = "done"
       ELSE /\ ret' = ret
            /\ mpc' = "L243"
    /\ UNCHANGED <<app, joined, cmd, pc, wg, ev, dv, out, calls, failed,
                   signals>>

\* every row is marked
TMRowsAllMarked(profiles, session) ==
    [i \in DOMAIN profiles |-> [user |-> profiles[i], me |-> TRUE]]

\* one row per profile, marked when it is the session's user
TMRows(profiles, session) ==
    [i \in DOMAIN profiles |->
       [user |-> profiles[i], me |-> session.user = profiles[i]]]

\* lines 243-282: the owners of the memberships are collected in a map, the
\* profiles of its keys are fetched and printed
TMRender ==
    /\ cmd = "teamMembersList" /\ mpc = "L243"
    /\ Access(Caller, {"memberships", "session"}, {})
    /\ IF Len(dv.memberships) = 0
       THEN /\ out' = [out EXCEPT !.notes = Append(@, "has no members")]
            /\ ret' = ReturnedNil
            /\ UNCHANGED <<calls, failed, ev, dv>>
       ELSE /\ CallerCalls({"Profiles.ListByID"})
            /\ \E profileIDs \in Orders(Range([i \in DOMAIN dv.memberships |->
                                                  dv.memberships[i].owner])) :
                  \/ /\ ev' = [ev EXCEPT !.err = Err(Caller, "Profiles.ListByID")]
                     /\ ret' = Returned(Err(Caller, "Profiles.ListByID"))
                     /\ dv' = [dv EXCEPT !.userIDs = profileIDs]
                     /\ out' = out
                  \/ /\ ev' = ev
                     /\ ret' = Returned(Err(Caller, "User not found."))
                     /\ dv' = [dv EXCEPT !.userIDs = profileIDs]
                     /\ out' = out
                  \/ \E profiles \in ProfileLists :
                        /\ ev' = ev
                        /\ ret' = ReturnedNil
                        /\ dv' = [dv EXCEPT !.userIDs = profileIDs,
                                            !.users = profiles]
                        /\ out' = [out EXCEPT
                                     !.rows = TMRows(profiles, dv.session),
                                     !.summary = Len(dv.memberships)]
    /\ mpc' = "done"
    /\ UNCHANGED <<app, joined, cmd, pc, wg, signals>>

TeamMembersList ==
    \/ TMStart \/ TMMemsList \/ TMMemsDone \/ TMSessionWho \/ TMSessionDone
    \/ TMJoin \/ TMCheck \/ TMRender

-----------------------------------------------------------------------------
(* teamsRemoveCmd *)

TRStart ==
    /\ cmd = "teamsRemove" /\ mpc = "start"
    /\ wg' = [wg EXCEPT !["wait"] = RemoveWaitAdd]
    /\ pc' = [pc EXCEPT ![1] = "L361", ![2] = "L381"]
    /\ mpc' = "L390"
    /\ UNCHANGED <<app, joined, cmd, ev, dv, out, ret, calls, failed, signals,
                   writers, reads>>

\* result, err := client.Orgs.GetByName(...): oErr and return, or org = result
TROrgGet ==
    /\ cmd = "teamsRemove" /\ pc[1] = "L361"
    /\ \E found \in BOOLEAN :
          /\ Call(1, "Orgs.GetByName", found)
          /\ IF found
             THEN /\ dv' = [dv EXCEPT !.org = "org"]
                  /\ ev' = ev
                  /\ Access(1, {}, {"org"})
                  /\ Goto(1, "L370")
             ELSE /\ ev' = [ev EXCEPT !.oErr = Err(1, "Org not found.")]
                  /\ dv' = dv
                  /\ Access(1, {}, {"oErr"})
                  /\ Goto(1, "L364")
    /\ UNCHANGED <<app, joined, cmd, mpc, wg, out, ret, signals>>

\* results, err := client.Teams.GetByName(...): tErr, or team = results[0]
TRTeamGet ==
    /\ cmd = "teamsRemove" /\ pc[1] = "L370"
    /\ \E found \in BOOLEAN :
          /\ Call(1, "Teams.GetByName", found)
          /\ IF found
             THEN /\ dv' = [dv EXCEPT !.team = "team"]
                  /\ ev' = ev
                  /\ Access(1, {"org"}, {"team"})
             ELSE /\ ev' = [ev EXCEPT !.tErr = Err(1, "Team not found.")]
                  /\ dv' = dv
                  /\ Access(1, {"org"}, {"tErr"})
    /\ Goto(1, "L376")
    /\ UNCHANGED <<app, joined, cmd, mpc, wg, out, ret, signals>>

\* wait.Done() of the org-and-team goroutine (line 364 or line 376)
TRLookupDone ==
    /\ cmd = "teamsRemove" /\ pc[1] \in {"L364", "L376"}
    /\ Done(1)
    /\ Goto(1, "done")
    /\ UNCHANGED <<app, joined, cmd, mpc, ev, dv, out, ret, calls, failed,
                   writers, reads>>

\* result, err := client.Profiles.ListByName(c, username)
TRUserGet ==
    /\ cmd = "teamsRemove" /\ pc[2] = "L381"
    /\ \E found \in BOOLEAN :
          /\ Call(2, "Profiles.ListByName", found)
          /\ IF found
             THEN /\ dv' = [dv EXCEPT !.user = "user"]
                  /\ ev' = ev
                  /\ Access(2, {}, {"user"})
             ELSE /\ ev' = [ev EXCEPT !.uErr = Err(2, "User not found.")]
                  /\ dv' = dv
                  /\ Access(2, {}, {"uErr"})
    /\ Goto(2, "L387")
    /\ UNCHANGED <<app, joined, cmd, mpc, wg, out, ret, signals>>

\* wait.Done()
TRUserDone ==
    /\ cmd = "teamsRemove" /\ pc[2] = "L387"
    /\ Done(2)
    /\ Goto(2, "done")
    /\ UNCHANGED <<app, joined, cmd, mpc, ev, dv, out, ret, calls, failed,
                   writers, reads>>

\* wait.Wait()
TRJoin ==
    /\ cmd = "teamsRemove" /\ mpc = "L390"
    /\ Wait(Caller, "wait")
    /\ mpc' = "L391"
    /\ UNCHANGED <<app, cmd, pc, wg, ev, dv, out, ret, calls, failed, signals,
                   writers, reads>>

\* tErr is left out of the test
TRCheckNoTeam ==
    /\ cmd = "teamsRemove" /\ mpc = "L391"
    /\ Access(Caller, {"uErr", "oErr"}, {})
    /\ IF ev.uErr # Nil \/ ev.oErr # Nil
       THEN /\ ret' = MultiError(<<ev.oErr, ev.uErr, ev.tErr>>)
            /\ mpc' = "done"
       ELSE /\ ret' = ret
            /\ mpc' = "L399"
    /\ UNCHANGED <<app, joined, cmd, pc, wg, ev, dv, out, calls, failed,
                   signals>>

\* if uErr != nil || oErr != nil || tErr != nil {
\*     return errs.MultiError(oErr, uErr, tErr) }
TRCheck ==
    /\ cmd = "teamsRemove" /\ mpc = "L391"
    /\ Access(Caller, {"uErr", "oErr", "tErr"}, {})
    /\ IF ev.uErr # Nil \/ ev.oErr # Nil \/ ev.tErr # Nil
       THEN /\ ret' = MultiError(<<ev.oErr, ev.uErr, ev.tErr>>)
            /\ mpc' = "done"
       ELSE /\ ret' = ret
            /\ mpc' = "L399"
    /\ UNCHANGED <<app, joined, cmd, pc, wg, ev, dv, out, calls, failed,
                   signals>>

RemoveOutcomes == {"confirm failed", "declined", "list failed", "list empty",
                   "member of the", "cannot remove", "delete failed", "removed"}

\* the error teamsRemoveCmd returns for an outcome of lines 399-425
RemoveError(o) ==
    CASE o = "confirm failed" -> Err(Caller, "Failed to retrieve confirmation")
      [] o = "declined"       -> Err(Caller, "ErrAbort")
      [] o \in {"list failed", "list empty"}
                              -> Err(Caller, "Memberships not found.")
      [] o = "member of the"  ->
            Err(Caller, "Must be a member of the admin team to remove members")
      [] o = "cannot remove"  ->
            Err(Caller, "Cannot remove members from the member team")
      [] o = "delete failed"  -> Err(Caller, "Failed to remove team member.")

\* lines 399-429: confirmation, lookup of the membership row, deletion
TRRemove ==
    /\ cmd = "teamsRemove" /\ mpc = "L399"
    /\ Access(Caller, {"user", "team", "org"}, {})
    /\ \E o \in RemoveOutcomes :
          /\ CallerCalls(
                CASE o \in {"confirm failed", "declined"} -> {}
                  [] o \in {"list failed", "list empty"} -> {"Memberships.List"}
                  [] OTHER -> {"Memberships.List", "Memberships.Delete"})
          /\ ev' = [ev EXCEPT !.err =
                      IF o \in {"confirm failed", "member of the",
                                "cannot remove", "delete failed"}
                      THEN Err(Caller, o) ELSE Nil]
          /\ IF o = "removed"
             THEN /\ ret' = ReturnedNil
                  /\ out' = [out EXCEPT !.notes = Append(@, "has been removed")]
             ELSE /\ ret' = Returned(RemoveError(o))
                  /\ out' = out
    /\ mpc' = "done"
    /\ UNCHANGED <<app, joined, cmd, pc, wg, dv, signals>>

TeamsRemove ==
    \/ TRStart \/ TROrgGet \/ TRTeamGet \/ TRLookupDone \/ TRUserGet
    \/ TRUserDone \/ TRJoin \/ TRCheck \/ TRRemove

-----------------------------------------------------------------------------
(* teamsAddCmd *)

TAStart ==
    /\ cmd = "teamsAdd" /\ mpc = "start"
    /\ wg' = [wg EXCEPT !["wait"] = AddWaitAdd]
    /\ pc' = [pc EXCEPT ![1] = "L460", ![2] = "L481"]
    /\ mpc' = "L490"
    /\ UNCHANGED <<app, joined, cmd, ev, dv, out, ret, calls, failed, signals,
                   writers, reads>>

\* result, err := client.Orgs.GetByName(...): oErr and return, or org = result
TAOrgGet ==
    /\ cmd = "teamsAdd" /\ pc[1] = "L460"
    /\ \E found \in BOOLEAN :
          /\ Call(1, "Orgs.GetByName", found)
          /\ IF found
             THEN /\ dv' = [dv EXCEPT !.org = "org"]
                  /\ ev' = ev
                  /\ Access(1, {}, {"org"})
                  /\ Goto(1, "L469")
             ELSE /\ ev' = [ev EXCEPT !.oErr = Err(1, "Org not found.")]
                  /\ dv' = dv
                  /\ Access(1, {}, {"oErr"})
                  /\ Goto(1, "L463")
    /\ UNCHANGED <<app, joined, cmd, mpc, wg, out, ret, signals>>

\* results, err := client.Teams.GetByName(...): tErr and return, or
\* team = results[0]
TATeamGet ==
    /\ cmd = "teamsAdd" /\ pc[1] = "L469"
    /\ \E found \in BOOLEAN :
          /\ Call(1, "Teams.GetByName", found)
          /\ IF found
             THEN /\ dv' = [dv EXCEPT !.team = "team"]
                  /\ ev' = ev
                  /\ Access(1, {"org"}, {"team"})
                  /\ Goto(1, "L476")
             ELSE /\ ev' = [ev EXCEPT !.tErr = Err(1, "Team not found.")]
                  /\ dv' = dv
                  /\ Access(1, {"org"}, {"tErr"})
                  /\ Goto(1, "L472")
    /\ UNCHANGED <<app, joined, cmd, mpc, wg, out, ret, signals>>

\* wait.Done() of the org-and-team goroutine (line 463, 472 or 476)
TALookupDone ==
    /\ cmd = "teamsAdd" /\ pc[1] \in {"L463", "L472", "L476"}
    /\ Done(1)
    /\ Goto(1, "done")
    /\ UNCHANGED <<app, joined, cmd, mpc, ev, dv, out, ret, calls, failed,
                   writers, reads>>

\* result, err := client.Profiles.ListByName(c, username)
TAUserGet ==
    /\ cmd = "teamsAdd" /\ pc[2] = "L481"
    /\ \E found \in BOOLEAN :
          /\ Call(2, "Profiles.ListByName", found)
          /\ IF found
             THEN /\ dv' = [dv EXCEPT !.user = "user"]
                  /\ ev' = ev
                  /\ Access(2, {}, {"user"})
             ELSE /\ ev' = [ev EXCEPT !.uErr = Err(2, "User not found.")]
                  /\ dv' = dv
                  /\ Access(2, {}, {"uErr"})
    /\ Goto(2, "L487")
    /\ UNCHANGED <<app, joined, cmd, mpc, wg, out, ret, signals>>

\* wait.Done()
TAUserDone ==
    /\ cmd = "teamsAdd" /\ pc[2] = "L487"
    /\ Done(2)
    /\ Goto(2, "done")
    /\ UNCHANGED <<app, joined, cmd, mpc, ev, dv, out, ret, calls, failed,
                   writers, reads>>

\* wait.Wait()
TAJoin ==
    /\ cmd = "teamsAdd" /\ mpc = "L490"
    /\ Wait(Caller, "wait")
    /\ mpc' = "L491"
    /\ UNCHANGED <<app, cmd, pc, wg, ev, dv, out, ret, calls, failed, signals,
                   writers, reads>>

\* if uErr != nil || oErr != nil || tErr != nil {
\*     return errs.MultiError(oErr, uErr, tErr) }
TACheck ==
    /\ cmd = "teamsAdd" /\ mpc = "L491"
    /\ Access(Caller, {"uErr", "oErr", "tErr"}, {})
    /\ IF ev.uErr # Nil \/ ev.oErr # Nil \/ ev.tErr # Nil
       THEN /\ ret' = MultiError(<<ev.oErr, ev.uErr, ev.tErr>>)
            /\ mpc' = "done"
       ELSE /\ ret' = ret
            /\ mpc' = "L499"
    /\ UNCHANGED <<app, joined, cmd, pc, wg, ev, dv, out, calls, failed,
                   signals>>

AddOutcomes == {"member of the", "resource exists", "to the members team",
                "create failed", "added"}

\* the error teamsAddCmd returns for an outcome of lines 499-511
AddError(o) ==
    CASE o = "member of the" ->
            Err(Caller, "Must be a member of the admin team to add members.")
      [] o = "resource exists"     -> Err(Caller, "is already a member")
      [] o = "to the members team" -> Err(Caller, "cannot be added")
      [] o = "create failed"       ->
            Err(Caller, "Failed to add team member, please try again")

\* lines 499-516: err = client.Memberships.Create(c, user.ID, org.ID, team.ID)
TACreate ==
    /\ cmd = "teamsAdd" /\ mpc = "L499"
    /\ Access(Caller, {"user", "team", "org"}, {})
    /\ CallerCalls({"Memberships.Create"})
    /\ \E o \in AddOutcomes :
          IF o = "added"
          THEN /\ ev' = [ev EXCEPT !.err = Nil]
               /\ ret' = ReturnedNil
               /\ out' = [out EXCEPT !.notes = Append(@, "has been added")]
          ELSE /\ ev' = [ev EXCEPT !.err = Err(Caller, o)]
               /\ ret' = Returned(AddError(o))
               /\ out' = out
    /\ mpc' = "done"
    /\ UNCHANGED <<app, joined, cmd, pc, wg, dv, signals>>

TeamsAdd ==
    \/ TAStart \/ TAOrgGet \/ TATeamGet \/ TALookupDone \/ TAUserGet
    \/ TAUserDone \/ TAJoin \/ TACheck \/ TACreate

-----------------------------------------------------------------------------
(* orgsList and its caller orgsListCmd *)

OLStart ==
    /\ cmd = "orgsList" /\ mpc = "start"
    /\ wg' = [wg EXCEPT !["wg"] = OrgsWgAdd]
    /\ pc' = [pc EXCEPT ![1] = "L695", ![2] = "L700"]
    /\ mpc' = "L704"
    /\ UNCHANGED <<app, joined, cmd, ev, dv, out, ret, calls, failed, signals,
                   writers, reads>>

\* orgs, oErr = client.Orgs.List(context.Background())
OLOrgsList ==
    /\ cmd = "orgsList" /\ pc[1] = "L695"
    /\ \/ \E os \in OrgLists :
             /\ Call(1, "Orgs.List", TRUE)
             /\ dv' = [dv EXCEPT !.orgs = os]
             /\ ev' = [ev EXCEPT !.oErr = Nil]
       \/ /\ Call(1, "Orgs.List", FALSE)
          /\ dv' = [dv EXCEPT !.orgs = <<>>]
          /\ ev' = [ev EXCEPT !.oErr = Err(1, "Orgs.List")]
    /\ Access(1, {}, {"orgs", "oErr"})
    /\ Goto(1, "L696")
    /\ UNCHANGED <<app, joined, cmd, mpc, wg, out, ret, signals>>

\* wg.Done()
OLOrgsDone ==
    /\ cmd = "orgsList" /\ pc[1] = "L696"
    /\ Done(1)
    /\ Goto(1, "done")
    /\ UNCHANGED <<app, joined, cmd, mpc, ev, dv, out, ret, calls, failed,
                   writers, reads>>

\* session, sErr = client.Session.Who(context.Background())
OLSessionWho ==
    /\ cmd = "orgsList" /\ pc[2] = "L700"
    /\ \E s \in Sessions \cup {NilSession} :
          /\ Call(2, "Session.Who", s # NilSession)
          /\ dv' = [dv EXCEPT !.session = s]
          /\ ev' = [ev EXCEPT !.sErr =
                       IF s = NilSession THEN Err(2, "Session.Who") ELSE Nil]
    /\ Access(2, {}, {"session", "sErr"})
    /\ Goto(2, "L701")
    /\ UNCHANGED <<app, joined, cmd, mpc, wg, out, ret, signals>>

\* wg.Done()
OLSessionDone ==
    /\ cmd = "orgsList" /\ pc[2] = "L701"
    /\ Done(2)
    /\ Goto(2, "done")
    /\ UNCHANGED <<app, joined, cmd, mpc, ev, dv, out, ret, calls, failed,
                   writers, reads>>

\* wg.Wait()
OLJoin ==
    /\ cmd = "orgsList" /\ mpc = "L704"
    /\ Wait(Caller, "wg")
    /\ mpc' = "L705"
    /\ UNCHANGED <<app, cmd, pc, wg, ev, dv, out, ret, calls, failed, signals,
                   writers, reads>>

\* if oErr != nil || sErr != nil {
\*     return nil, nil, errs.NewExitError("Error fetching orgs list") }
\* return orgs, session, nil
\* orgsListCmd (lines 650-653) receives these values in its own orgs, session
\* and err and returns err when it is not nil.
OLCheck ==
    /\ cmd = "orgsList" /\ mpc = "L705"
    /\ Access(Caller, {"oErr", "sErr"}, {})
    /\ IF ev.oErr # Nil \/ ev.sErr # Nil
       THEN /\ ret' = Returned(Err(Caller, "Error fetching orgs list"))
            /\ ev' = [ev EXCEPT !.err = Err(Caller, "Error fetching orgs list")]
            /\ dv' = [dv EXCEPT !.orgs = <<>>, !.session = NilSession]
            /\ mpc' = "done"
       ELSE /\ ret' = ret
            /\ ev' = ev
            /\ dv' = dv
            /\ mpc' = "L655"
    /\ UNCHANGED <<app, joined, cmd, pc, wg, out, calls, failed, signals>>

\* no element moves: the result is the array cut by one
RemoveInPlaceNoShift(backing, i) == [k \in DOMAIN backing |-> backing[k]]

\* append(orgs[:i], orgs[i+1:]...): the elements after i move one place down
\* in the array orgs shares with the result; the last place keeps its value.
RemoveInPlace(backing, i) ==
    [k \in DOMAIN backing |->
       IF k >= i /\ k < Len(backing) THEN backing[k + 1] ELSE backing[k]]

\* the loop "for i, o := range orgs" of orgsListCmd from index i on: the
\* array behind orgs, the length of withoutPersonal and the orgs printed as
\* personal
RECURSIVE PersonalLoop(_, _, _, _, _)
PersonalLoop(i, backing, wpLen, personal, username) ==
    IF i > Len(backing) THEN [backing |-> backing, wpLen |-> wpLen,
                              personal |-> personal]
    ELSE IF backing[i] = username
         THEN PersonalLoop(i + 1, RemoveInPlace(backing, i), Len(backing) - 1,
                           Append(personal, backing[i]), username)
         ELSE PersonalLoop(i + 1, backing, wpLen, personal, username)

\* lines 655-670: the lines printed, the personal org first
OLRows(orgs, session) ==
    LET r == IF session.type = "user"
             THEN PersonalLoop(1, orgs, Len(orgs), <<>>, session.user)
             ELSE [backing |-> orgs, wpLen |-> Len(orgs), personal |-> <<>>]
    IN [i \in DOMAIN r.personal |-> [name |-> r.personal[i], personal |-> TRUE]]
       \o [i \in 1..r.wpLen |-> [name |-> r.backing[i], personal |-> FALSE]]

\* orgsListCmd, lines 655-677
OLRender ==
    /\ cmd = "orgsList" /\ mpc = "L655"
    /\ Access(Caller, {"orgs", "session"}, {})
    /\ out' = [out EXCEPT !.rows = OLRows(dv.orgs, dv.session),
                          !.summary = Len(dv.orgs)]
    /\ ret' = ReturnedNil
    /\ mpc' = "done"
    /\ UNCHANGED <<app, joined, cmd, pc, wg, ev, dv, calls, failed, signals>>

OrgsList ==
    \/ OLStart \/ OLOrgsList \/ OLOrgsDone \/ OLSessionWho \/ OLSessionDone
    \/ OLJoin \/ OLCheck \/ OLRender

-----------------------------------------------------------------------------
(* orgsMembersListCmd *)

OMStart ==
    /\ cmd = "orgsMembersList" /\ mpc = "start"
    /\ wg' = [wg EXCEPT !["getMembersTeamsSession"] = GetMembersTeamsSessionAdd]
    /\ pc' = [pc EXCEPT ![1] = "L800", ![2] = "L812", ![3] = "L823"]
    /\ mpc' = "L832"
    /\ UNCHANGED <<app, joined, cmd, ev, dv, out, ret, calls, failed, signals,
                   writers, reads>>

\* teams, tErr = client.Teams.List(c, org.ID, "", primitive.AnyTeamType)
OMTeamsList ==
    /\ cmd = "orgsMembersList" /\ pc[1] = "L800"
    /\ \/ \E ts \in TeamLists :
             /\ Call(1, "Teams.List", TRUE)
             /\ dv' = [dv EXCEPT !.teams = ts]
             /\ ev' = [ev EXCEPT !.tErr = Nil]
       \/ /\ Call(1, "Teams.List", FALSE)
          /\ dv' = [dv EXCEPT !.teams = <<>>]
          /\ ev' = [ev EXCEPT !.tErr = Err(1, "Teams.List")]
    /\ Access(1, {}, {"teams", "tErr"})
    /\ Goto(1, "L801")
    /\ UNCHANGED <<app, joined, cmd, mpc, wg, out, ret, signals>>

\* if tErr != nil
OMTeamsCheck ==
    /\ cmd = "orgsMembersList" /\ pc[1] = "L801"
    /\ Access(1, {"tErr"}, {})
    /\ Goto(1, IF ev.tErr # Nil THEN "L802" ELSE "L807")
    /\ UNCHANGED <<app, joined, cmd, mpc, wg, ev, dv, out, ret, calls, failed,
                   signals>>

\* tErr = errs.NewExitError("Could not retrieve list of teams.")
OMTeamsWrap ==
    /\ cmd = "orgsMembersList" /\ pc[1] = "L802"
    /\ ev' = [ev EXCEPT !.tErr = Err(1, "Could not retrieve list of teams.")]
    /\ Access(1, {}, {"tErr"})
    /\ Goto(1, "L803")
    /\ UNCHANGED <<app, joined, cmd, mpc, wg, dv, out, ret, calls, failed,
                   signals>>

\* getMembersTeamsSession.Done() (line 803 or line 807)
OMTeamsDone ==
    /\ cmd = "orgsMembersList" /\ pc[1] \in {"L803", "L807"}
    /\ Done(1)
    /\ Goto(1, "done")
    /\ UNCHANGED <<app, joined, cmd, mpc, ev, dv, out, ret, calls, failed,
                   writers, reads>>

\* memberships, mErr = client.Memberships.List(c, org.ID, nil, nil)
OMMemsList ==
    /\ cmd = "orgsMembersList" /\ pc[2] = "L812"
    /\ \/ \E ms \in MembershipLists :
             /\ Call(2, "Memberships.List", TRUE)
             /\ dv' = [dv EXCEPT !.memberships = ms]
             /\ ev' = [ev EXCEPT !.mErr = Nil]
       \/ /\ Call(2, "Memberships.List", FALSE)
          /\ dv' = [dv EXCEPT !.memberships = <<>>]
          /\ ev' = [ev EXCEPT !.mErr = Err(2, "Memberships.List")]
    /\ Access(2, {}, {"memberships", "mErr"})
    /\ Goto(2, "L813")
    /\ UNCHANGED <<app, joined, cmd, mpc, wg, out, ret, signals>>

\* if mErr != nil
OMMemsCheck ==
    /\ cmd = "orgsMembersList" /\ pc[2] = "L813"
    /\ Access(2, {"mErr"}, {})
    /\ Goto(2, IF ev.mErr # Nil THEN "L814" ELSE "L818")
    /\ UNCHANGED <<app, joined, cmd, mpc, wg, ev, dv, out, ret, calls, failed,
                   signals>>

\* tErr = errs.NewExitError("Could not retrieve list of memberships.")
OMMemsWrap ==
    /\ cmd = "orgsMembersList" /\ pc[2] = "L814"
    /\ ev' = [ev EXCEPT !.tErr =
                 Err(2, "Could not retrieve list of memberships.")]
    /\ Access(2, {}, {"tErr"})
    /\ Goto(2, "L815")
    /\ UNCHANGED <<app, joined, cmd, mpc, wg, dv, out, ret, calls, failed,
                   signals>>

\* getMembersTeamsSession.Done() (line 815 or line 818)
OMMemsDone ==
    /\ cmd = "orgsMembersList" /\ pc[2] \in {"L815", "L818"}
    /\ Done(2)
    /\ Goto(2, "done")
    /\ UNCHANGED <<app, joined, cmd, mpc, ev, dv, out, ret, calls, failed,
                   writers, reads>>

\* session, err = client.Session.Who(c)
OMSessionWho ==
    /\ cmd = "orgsMembersList" /\ pc[3] = "L823"
    /\ \E s \in Sessions \cup {NilSession} :
          /\ Call(3, "Session.Who", s # NilSession)
          /\ dv' = [dv EXCEPT !.session = s]
          /\ ev' = [ev EXCEPT !.err =
                       IF s = NilSession THEN Err(3, "Session.Who") ELSE Nil]
    /\ Access(3, {}, {"session", "err"})
    /\ Goto(3, "L824")
    /\ UNCHANGED <<app, joined, cmd, mpc, wg, out, ret, signals>>

\* if sErr != nil { sErr = errs.NewExitError("Failed to get current session.") }
OMSessionCheck ==
    /\ cmd = "orgsMembersList" /\ pc[3] = "L824"
    /\ IF ev.sErr # Nil
       THEN /\ ev' = [ev EXCEPT !.sErr =
                        Err(3, "Failed to get current session.")]
            /\ Access(3, {"sErr"}, {"sErr"})
            /\ Goto(3, "L826")
       ELSE /\ ev' = ev
            /\ Access(3, {"sErr"}, {})
            /\ Goto(3, "L829")
    /\ UNCHANGED <<app, joined, cmd, mpc, wg, dv, out, ret, calls, failed,
                   signals>>

\* getMembersTeamsSession.Done() (line 826 or line 829)
OMSessionDone ==
    /\ cmd = "orgsMembersList" /\ pc[3] \in {"L826", "L829"}
    /\ Done(3)
    /\ Goto(3, "done")
    /\ UNCHANGED <<app, joined, cmd, mpc, ev, dv, out, ret, calls, failed,
                   writers, reads>>

\* getMembersTeamsSession.Wait()
OMJoin ==
    /\ cmd = "orgsMembersList" /\ mpc = "L832"
    /\ Wait(Caller, "getMembersTeamsSession")
    /\ mpc' = "L833"
    /\ UNCHANGED <<app, cmd, pc, wg, ev, dv, out, ret, calls, failed, signals,
                   writers, reads>>

\* if tErr != nil || mErr != nil || sErr != nil {
\*     return errs.MultiError(tErr, mErr, sErr) }
OMCheck ==
    /\ cmd = "orgsMembersList" /\ mpc = "L833"
    /\ Access(Caller, {"tErr", "mErr", "sErr"}, {})
    /\ IF ev.tErr # Nil \/ ev.mErr # Nil \/ ev.sErr # Nil
       THEN /\ ret' = MultiError(<<ev.tErr, ev.mErr, ev.sErr>>)
            /\ mpc' = "done"
       ELSE /\ ret' = ret
            /\ mpc' = "L841"
    /\ UNCHANGED <<app, joined, cmd, pc, wg, ev, dv, out, calls, failed,
                   signals>>

\* lines 846-849: teamsIdx[*team.ID] = team
RECURSIVE TeamsIdx(_, _)
TeamsIdx(teams, n) ==
    IF n = 0 THEN EmptyMap
    ELSE Put(TeamsIdx(teams, n - 1), teams[n].id, teams[n])

\* the ID of the team is put in front of the IDs of the user
RECURSIVE IndexLoopPrepend(_, _, _, _)
IndexLoopPrepend(memberships, i, teamsIdx, acc) ==
    IF i > Len(memberships) THEN acc
    ELSE LET m == memberships[i] IN
         IF m.team \notin DOMAIN teamsIdx
         THEN [acc EXCEPT !.panic = TRUE]
         ELSE IF isMachineTeam(teamsIdx[m.team])
         THEN IndexLoopPrepend(memberships, i + 1, teamsIdx, acc)
         ELSE IndexLoopPrepend(memberships, i + 1, teamsIdx,
                [acc EXCEPT
                   !.membershipUserIDs = @ \cup {m.owner},
                   !.userTeamIdx =
                       Put(@, m.owner,
                           <<m.team>> \o (IF m.owner \in DOMAIN @
                                          THEN @[m.owner] ELSE <<>>))])

\* lines 857-880, from membership i on: the loop stops with a panic at a
\* membership whose team is not in teamsIdx
RECURSIVE IndexLoop(_, _, _, _)
IndexLoop(memberships, i, teamsIdx, acc) ==
    IF i > Len(memberships) THEN acc
    ELSE LET m == memberships[i] IN
         IF m.team \notin DOMAIN teamsIdx
         THEN [acc EXCEPT !.panic = TRUE]
         ELSE IF isMachineTeam(teamsIdx[m.team])
         THEN IndexLoop(memberships, i + 1, teamsIdx, acc)
         ELSE IndexLoop(memberships, i + 1, teamsIdx,
                [acc EXCEPT
                   !.membershipUserIDs = @ \cup {m.owner},
                   !.userTeamIdx =
                       Put(@, m.owner,
                           Append(IF m.owner \in DOMAIN @ THEN @[m.owner]
                                  ELSE <<>>, m.team))])

\* the owner of every membership is collected, before the machine teams are
\* skipped
BuildIndexAllOwners(teams, memberships) ==
    [IndexLoop(memberships, 1, TeamsIdx(teams, Len(teams)),
               [panic |-> FALSE, membershipUserIDs |-> {},
                userTeamIdx |-> EmptyMap])
       EXCEPT !.membershipUserIDs =
                  {memberships[i].owner : i \in DOMAIN memberships}]

BuildIndex(teams, memberships) ==
    IndexLoop(memberships, 1, TeamsIdx(teams, Len(teams)),
              [panic |-> FALSE, membershipUserIDs |-> {},
               userTeamIdx |-> EmptyMap])

\* lines 841-880: the empty membership list, then the indices
OMIndex ==
    /\ cmd = "orgsMembersList" /\ mpc = "L841"
    /\ Access(Caller, {"memberships", "teams"}, {})
    /\ IF Len(dv.memberships) = 0
       THEN /\ ret' = Returned(Err(Caller, "has no members."))
            /\ dv' = dv
            /\ mpc' = "done"
       ELSE LET b == BuildIndex(dv.teams, dv.memberships) IN
            /\ dv' = [dv EXCEPT
                        !.teamsIdx = TeamsIdx(dv.teams, Len(dv.teams)),
                        !.userTeamIdx = b.userTeamIdx,
                        !.membershipUserIDs = b.membershipUserIDs]
            /\ ret' = IF b.panic THEN Panicked ELSE ret
            /\ mpc' = IF b.panic THEN "done" ELSE "L883"
    /\ UNCHANGED <<app, joined, cmd, pc, wg, ev, out, calls, failed, signals>>

\* rank of a team in ByTeamPrecedence
TeamPrecedence(team) ==
    CASE team.type = "system" -> 0
      [] team.type = "user" -> 1
      [] OTHER -> 2

Count(s, x) == Cardinality({i \in DOMAIN s : s[i] = x})

\* sort.Sort(ByTeamPrecedence(userTeams)): sort.Sort is not stable, any
\* arrangement of the elements in ascending precedence may come out
Sorted(userTeams) ==
    {p \in [DOMAIN userTeams -> Range(userTeams)] :
        /\ \A x \in Range(userTeams) : Count(p, x) = Count(userTeams, x)
        /\ \A i, j \in DOMAIN p :
              i < j => TeamPrecedence(p[i]) <= TeamPrecedence(p[j])}

\* the teams of a user, looked up in both indices (lines 906-909)
UserTeams(user, teamsIdx, userTeamIdx) ==
    IF user \in DOMAIN userTeamIdx
    THEN [i \in DOMAIN userTeamIdx[user] |-> teamsIdx[userTeamIdx[user][i]]]
    ELSE <<>>

\* the rows the loop of lines 899-921 may write for the profiles from i on
RECURSIVE OMRowSeqs(_, _, _, _, _)
OMRowSeqs(users, i, session, teamsIdx, userTeamIdx) ==
    IF i > Len(users) THEN {<<>>}
    ELSE {<<[user |-> users[i], me |-> session.user = users[i],
             teams |-> [k \in DOMAIN p |-> p[k].name]]>> \o rest :
            p \in Sorted(UserTeams(users[i], teamsIdx, userTeamIdx)),
            rest \in OMRowSeqs(users, i + 1, session, teamsIdx, userTeamIdx)}

\* teamString[:len(teamString)-2] is out of range for a user without teams
SlicePanics(users, userTeamIdx) ==
    \E i \in DOMAIN users : users[i] \notin DOMAIN userTeamIdx

\* lines 882-929: the profiles of the users are fetched and printed.  The
\* table is written to stdout by w.Flush(), after the loop.  session is nil
\* when Session.Who failed: session.Username() then either dereferences it
\* (a panic) or yields a name that matches no profile.
OMRender ==
    /\ cmd = "orgsMembersList" /\ mpc = "L883"
    /\ Access(Caller, {"session", "err"}, {})
    /\ CallerCalls({"Profiles.ListByID"})
    /\ \E userIDs \in Orders(dv.membershipUserIDs) :
          /\ \/ /\ ev' = [ev EXCEPT !.err = Err(Caller, "Profiles.ListByID")]
                /\ ret' = Returned(Err(Caller, "Could not list teams."))
                /\ dv' = [dv EXCEPT !.userIDs = userIDs]
                /\ out' = out
             \/ /\ ev' = [ev EXCEPT !.err = Nil]
                /\ ret' = Returned(Err(Caller, "User not found."))
                /\ dv' = [dv EXCEPT !.userIDs = userIDs]
                /\ out' = out
             \/ \E users \in ProfileLists :
                   /\ ev' = [ev EXCEPT !.err = Nil]
                   /\ dv' = [dv EXCEPT !.userIDs = userIDs, !.users = users]
                   /\ \/ /\ \/ SlicePanics(users, dv.userTeamIdx)
                            \/ dv.session = NilSession /\ users # <<>>
                         /\ ret' = Panicked
                         /\ out' = out
                      \/ /\ ~SlicePanics(users, dv.userTeamIdx)
                         /\ \E rows \in OMRowSeqs(users, 1, dv.session,
                                           dv.teamsIdx, dv.userTeamIdx) :
                               out' = [out EXCEPT !.rows = rows,
                                                  !.summary = Len(userIDs)]
                         /\ ret' = ReturnedNil
    /\ mpc' = "done"
    /\ UNCHANGED <<app, joined, cmd, pc, wg, signals>>

OrgsMembersList ==
    \/ OMStart \/ OMTeamsList \/ OMTeamsCheck \/ OMTeamsWrap \/ OMTeamsDone
    \/ OMMemsList \/ OMMemsCheck \/ OMMemsWrap \/ OMMemsDone
    \/ OMSessionWho \/ OMSessionCheck \/ OMSessionDone
    \/ OMJoin \/ OMCheck \/ OMIndex \/ OMRender

-----------------------------------------------------------------------------

\* the state of the process before a command runs
Idle ==
    /\ mpc = "start"
    /\ pc = [w \in Workers |-> "none"]
    /\ wg = [b \in Barriers |-> 0]
    /\ ev = [v \in ErrVars |-> Nil]
    /\ dv = NoData
    /\ out = NoOutput
    /\ ret = Running
    /\ calls = [c \in CallNames |-> 0]
    /\ failed = {}
    /\ signals = [w \in Workers |-> 0]
    /\ joined = {}
    /\ writers = [v \in SharedVars |-> {}]
    /\ reads = {}

Init ==
    /\ cmd \in Commands
    /\ Idle
    /\ app = NoApp

Next ==
    \/ TeamsList \/ TeamMembersList \/ TeamsRemove \/ TeamsAdd
    \/ OrgsList \/ OrgsMembersList

Spec == Init /\ [][Next]_vars

\* Every runnable goroutine is eventually scheduled and every remote call
\* returns: some enabled step is eventually taken.
FairSpec == Spec /\ WF_vars(Next)

-----------------------------------------------------------------------------
(* The views: what teamsListCmd, teamMembersListCmd and orgsMembersListCmd *)
(* do after the join when every fetch succeeded, on longer lists than the  *)
(* ones of Spec.                                                           *)

\* the teams of the org listed by orgsMembersListCmd: two user teams and a
\* machine team
OMTeamUniverse == {t \in ViewTeamUniverse : t.id \in {"A", "B", "D"}}

\* the team lists Teams.GetByOrg and Teams.List have returned
TLViewTeamLists ==
    {l \in SeqsUpTo(ViewTeamUniverse, ViewMaxRows) : NoDup(l)}
OMViewTeamLists ==
    {l \in SeqsUpTo(OMTeamUniverse, ViewMaxTeams) : NoDup(l)}

\* the membership lists Memberships.List has returned: the memberships of
\* one user in the org, of one team, and of the org
TLViewMembershipLists(user) ==
    SeqsUpTo([owner : {user}, team : {t.id : t \in ViewTeamUniverse}],
             ViewMaxOwn)
TMViewMembershipLists ==
    SeqsUpTo([owner : Users, team : {"A"}], ViewMaxMems)
OMViewMembershipLists ==
    SeqsUpTo([owner : Users, team : {t.id : t \in OMTeamUniverse}],
             ViewMaxMems)

\* what the fetches of a command have returned
Fetched(ts, ms, s) == [teams |-> ts, memberships |-> ms, session |-> s]

\* the goroutines of command c, in the order of their go statements
ViewWorkers(c) == IF c = "teamMembersList" THEN {1, 2} ELSE Workers

\* the shared variables each goroutine of command c has written when its
\* fetch succeeded
ViewWriters(c, d) ==
    CASE c = "teamsList" ->
           [v \in SharedVars |->
              CASE v = "session" -> {1}
                [] v = "sErr" -> {1, 3}
                [] v \in {"teams", "tErr"} -> {2}
                [] v = "memberOf" -> IF d.memberships = <<>> THEN {} ELSE {3}
                [] OTHER -> {}]
      [] c = "teamMembersList" ->
           [v \in SharedVars |->
              CASE v \in {"memberships", "mErr"} -> {1}
                [] v \in {"session", "sErr"} -> {2}
                [] OTHER -> {}]
      [] c = "orgsMembersList" ->
           [v \in SharedVars |->
              CASE v \in {"teams", "tErr"} -> {1}
                [] v \in {"memberships", "mErr"} -> {2}
                [] v \in {"session", "err"} -> {3}
                [] OTHER -> {}]

\* the reads of shared variables when the goroutines of command c ran one
\* after the other, in the order of their go statements, before the caller
ViewReads(c) ==
    LET rd(v, w, p) == [var |-> v, reader |-> w, pending |-> p] IN
    CASE c = "teamsList" ->
           {rd("sErr", 3, {}), rd("session", 3, {}),
            rd("sErr", Caller, {}), rd("tErr", Caller, {})}
      [] c = "teamMembersList" ->
           {rd("mErr", Caller, {}), rd("sErr", Caller, {})}
      [] c = "orgsMembersList" ->
           {rd("tErr", 1, {2, 3}), rd("mErr", 2, {3}), rd("sErr", 3, {}),
            rd("tErr", Caller, {}), rd("mErr", Caller, {}),
            rd("sErr", Caller, {})}

\* the remote calls of the goroutines of command c
ViewCalls(c) ==
    CASE c = "teamsList" -> {"Session.Who", "Teams.GetByOrg", "Memberships.List"}
      [] c = "teamMembersList" -> {"Memberships.List", "Session.Who"}
      [] c = "orgsMembersList" -> {"Teams.List", "Memberships.List", "Session.Who"}

\* the caller of command c has joined and has found every error slot nil,
\* the fetches have returned d
Joined(c, d) ==
       /\ cmd = c
       /\ mpc = CASE c = "teamsList" -> "L152"
                  [] c = "teamMembersList" -> "L243"
                  [] c = "orgsMembersList" -> "L841"
       /\ pc = [w \in Workers |-> IF w \in ViewWorkers(c) THEN "done" ELSE "none"]
       /\ wg = [b \in Barriers |-> 0]
       /\ ev = [v \in ErrVars |-> Nil]
       /\ dv = [NoData EXCEPT
                  !.teams = d.teams,
                  !.memberships = d.memberships,
                  !.session = d.session,
                  !.memberOf = IF c = "teamsList"
                               THEN {d.memberships[i].team :
                                       i \in DOMAIN d.memberships}
                               ELSE {}]
       /\ out = NoOutput
       /\ ret = Running
       /\ calls = [n \in CallNames |-> IF n \in ViewCalls(c) THEN 1 ELSE 0]
       /\ failed = {}
       /\ signals = [w \in Workers |-> IF w \in ViewWorkers(c) THEN 1 ELSE 0]
       /\ joined = {[w |-> Caller, b |-> BarrierOf(c, 2)]}
                    \cup IF c = "teamsList"
                         THEN {[w |-> 3, b |-> BarrierOf(c, 1)]} ELSE {}
       /\ writers = ViewWriters(c, d)
       /\ reads = ViewReads(c)
       /\ app = NoApp

\* the view of teamsListCmd
InitTeams ==
    \E s \in Sessions : \E ts \in TLViewTeamLists :
       \E ms \in TLViewMembershipLists(s.user) :
          Joined("teamsList", Fetched(ts, ms, s))

SpecTeams == InitTeams /\ [][TLRender]_vars

\* the views of teamMembersListCmd and orgsMembersListCmd
InitMembers ==
    \E s \in Sessions :
       \/ \E ms \in TMViewMembershipLists :
             Joined("teamMembersList", Fetched(<<>>, ms, s))
       \/ \E ts \in OMViewTeamLists : \E ms \in OMViewMembershipLists :
             Joined("orgsMembersList", Fetched(ts, ms, s))

NextMembers == TMRender \/ OMIndex \/ OMRender

SpecMembers == InitMembers /\ [][NextMembers]_vars

-----------------------------------------------------------------------------
(* Functions applied on their own: isMachineTeam, the sort of a user's     *)
(* teams, and UI.Child (src/ui/ui.go).                                     *)

\* every team type with the reserved name and with another name
FnTeams ==
    [id : {"T"}, type : {"user", "machine", "system"},
     name : {"machine-team", "admin"}]

\* the lists of teams of one user: distinct teams that are no machine roles
FnTeamLists ==
    {s \in SeqsUpTo({t \in ViewTeamUniverse : ~isMachineTeam(t)},
                    Cardinality(ViewTeamUniverse)) : NoDup(s)}

\* screenWidth(): the width of the terminal, or defaultCols, minus rightPad
defaultCols == 80
rightPad == 2
ColsValues == {defaultCols - rightPad, defaultCols}

\* type UI struct
UIs ==
    [Indent : 0..MaxIndent, Cols : ColsValues, EnableProgress : BOOLEAN,
     EnableHints : BOOLEAN, EnableColors : BOOLEAN]

\* func (u *UI) Child(indent int) *UI: the composite literal names Indent,
\* Cols, EnableProgress and EnableHints; EnableColors is left out and so has
\* the zero value
Child(u, indent) ==
    [Indent |-> u.Indent + indent, Cols |-> u.Cols,
     EnableProgress |-> u.EnableProgress, EnableHints |-> u.EnableHints,
     EnableColors |-> FALSE]

FnApps ==
    {[fn |-> "isMachineTeam", arg |-> t, res |-> FALSE, returned |-> FALSE] :
        t \in FnTeams}
    \cup {[fn |-> "sort.Sort", arg |-> s, res |-> <<>>, returned |-> FALSE] :
            s \in FnTeamLists}
    \cup {[fn |-> "Child", arg |-> [u |-> u, indent |-> n],
           res |-> [u |-> u, child |-> u], returned |-> FALSE] :
            u \in UIs, n \in 0..MaxIndent}

ApplyIsMachineTeam ==
    /\ app.fn = "isMachineTeam" /\ ~app.returned
    /\ app' = [app EXCEPT !.res = isMachineTeam(app.arg), !.returned = TRUE]
    /\ UNCHANGED cmdvars

\* sort.Sort(ByTeamPrecedence(userTeams))
ApplySort ==
    /\ app.fn = "sort.Sort" /\ ~app.returned
    /\ \E p \in Sorted(app.arg) :
          app' = [app EXCEPT !.res = p, !.returned = TRUE]
    /\ UNCHANGED cmdvars

\* u.Child(indent): res.u is the receiver after the call
ApplyChild ==
    /\ app.fn = "Child" /\ ~app.returned
    /\ app' = [app EXCEPT
                 !.res = [u |-> app.arg.u,
                          child |-> Child(app.arg.u, app.arg.indent)],
                 !.returned = TRUE]
    /\ UNCHANGED cmdvars

InitFn ==
    /\ cmd = "none"
    /\ Idle
    /\ app \in FnApps

NextFn == ApplyIsMachineTeam \/ ApplySort \/ ApplyChild

SpecFn == InitFn /\ [][NextFn]_vars

-----------------------------------------------------------------------------
(* Properties *)

Started == {w \in Workers : pc[w] # "none"}
ListCommands == {"teamsList", "teamMembersList", "orgsList", "orgsMembersList"}
IsFailure(r) == r.kind \in {"single", "aggregate"}
Producers(r) == {r.errs[i].by : i \in DOMAIN r.errs}

\* a team that is machine-owned: of type machine, or the system team with
\* the reserved name
MachineOwned(team) ==
    \/ team.type = "machine"
    \/ team.type = "system" /\ team.name = "machine-team"
\* the fetched team with the given ID is machine-owned
MachineOwnedID(id) ==
    \E k \in DOMAIN dv.teams : dv.teams[k].id = id /\ MachineOwned(dv.teams[k])
\* the fetched memberships of a user in teams that are not machine-owned
NonMachineMemberships(user) ==
    SelectSeq(dv.memberships,
              LAMBDA m : m.owner = user /\ ~MachineOwnedID(m.team))
\* the users with such a membership
NonMachineOwners == {u \in Users : NonMachineMemberships(u) # <<>>}
\* orgsMembersListCmd has built its indices (lines 845-880) without a panic
IndexBuilt ==
    /\ cmd = "orgsMembersList"
    /\ mpc = "L883" \/ calls["Profiles.ListByID"] = 1
\* a list view has printed its table and its summary line
Rendered == mpc = "done" /\ ret = ReturnedNil /\ out.summary # -1

\* C1: no WaitGroup counter ever goes negative, no goroutine calls Done()
\* more than once, a goroutine that has finished has called it once, and a
\* Wait() on a barrier has returned only if every goroutine counted on that
\* barrier has called Done(); when the command is over every goroutine has
\* signalled exactly once.
C1_BarrierExact ==
    /\ \A b \in Barriers : wg[b] >= 0
    /\ \A w \in Workers : signals[w] <= 1 /\ (pc[w] = "done" => signals[w] = 1)
    /\ \A j \in joined : \A w \in Started :
          BarrierOf(cmd, w) = j.b => signals[w] = 1
    /\ mpc = "done" => \A w \in Started : signals[w] = 1

\* C1 witness: teamsAddCmd has passed its join although both lookups failed
C1_Witness ==
    /\ cmd = "teamsAdd" /\ failed = {1, 2}
    /\ [w |-> Caller, b |-> "wait"] \in joined
    /\ signals[1] = 1 /\ signals[2] = 1

\* C2: when k >= 1 fetch goroutines of a list command failed, the command
\* returns a failure that holds an error of every one of them.
C2_AllErrorsKept ==
    (cmd \in ListCommands /\ mpc = "done" /\ failed # {})
        => IsFailure(ret) /\ failed \subseteq Producers(ret)

\* C3: when a fetch goroutine of a list command failed, the caller never
\* reaches the index-building or rendering step, nothing is printed, the
\* command returns a failure and orgsList hands on neither orgs nor session.
C3_NoRenderAfterFailure ==
    (cmd \in ListCommands /\ failed # {})
        => /\ mpc \notin {"L152", "L243", "L655", "L841", "L883"}
           /\ out = NoOutput
           /\ mpc = "done" => IsFailure(ret)
           /\ (mpc = "done" /\ cmd = "orgsList")
                 => dv.orgs = <<>> /\ dv.session = NilSession

\* C4: in teamsListCmd the dependent goroutine is past getMemberships.Wait()
\* only when the session goroutine has called Done(); when Session.Who failed
\* Memberships.List is never called; and the dependent goroutine, once
\* finished, has called display.Done().
C4_DependentTask ==
    cmd = "teamsList" =>
        /\ pc[3] \notin {"none", "L131"} => signals[1] = 1
        /\ 1 \in failed => calls["Memberships.List"] = 0
        /\ pc[3] = "done" => signals[3] = 1
        /\ [w |-> Caller, b |-> "display"] \in joined => signals[3] = 1

\* C4 witness: the session fetch failed, the dependent goroutine has
\* finished and the caller has passed display.Wait()
C4_Witness ==
    /\ cmd = "teamsList" /\ 1 \in failed
    /\ pc[3] = "done" /\ signals[3] = 1
    /\ [w |-> Caller, b |-> "display"] \in joined

\* C5: under fair scheduling every command eventually passes its join and
\* returns, with every goroutine it started finished and signalled.
C5_Termination ==
    <>(/\ mpc = "done"
       /\ \E j \in joined : j.w = Caller
       /\ Started # {}
       /\ \A w \in Started : pc[w] = "done" /\ signals[w] = 1)

\* C5 witness: teamsListCmd is over with the session fetch and the team
\* fetch both failed
C5_Witness ==
    /\ cmd = "teamsList" /\ mpc = "done" /\ failed = {1, 2}
    /\ \A w \in Workers : pc[w] = "done"

\* C6: no shared variable is written by two different goroutines.
C6_SingleWriter ==
    \A v \in SharedVars : Cardinality(writers[v]) <= 1

\* C7: whenever a worker or the caller reads a shared variable, every other
\* goroutine that writes this variable has already called Done().
C7_ReadAfterDone ==
    \A r \in reads : (writers[r.var] \ {r.reader}) \cap r.pending = {}

\* C8: the failure of a command is the one error of the one goroutine that
\* failed, or an aggregate of exactly one error of each goroutine that failed.
C8_ErrorRouting ==
    (mpc = "done" /\ failed # {})
        => /\ IsFailure(ret)
           /\ Producers(ret) = failed
           /\ Len(ret.errs) = Cardinality(failed)
           /\ ret.kind = "single" <=> Cardinality(failed) = 1

\* C9: the errors of the goroutines appear in the combined failure in the
\* order in which the goroutines are declared.
C9_DeclarationOrder ==
    (mpc = "done" /\ failed # {})
        => \A i, j \in DOMAIN ret.errs :
              (i < j /\ ret.errs[i].by # Caller /\ ret.errs[j].by # Caller)
                  => ret.errs[i].by <= ret.errs[j].by

\* C10: when all fetches of orgsMembersListCmd succeeded and a membership
\* references a team that is not in the team list, the command returns an
\* error value (it does not panic) and prints nothing.
C10_ConsistencyError ==
    (/\ cmd = "orgsMembersList" /\ mpc = "done" /\ failed = {}
     /\ \E i \in DOMAIN dv.memberships :
           dv.memberships[i].team \notin {dv.teams[k].id : k \in DOMAIN dv.teams})
        => ret.kind = "single" /\ out = NoOutput

\* C11: isMachineTeam returns true for a machine team of either name and for
\* the system team with the reserved name, and false for the system team
\* with another name and for a user team of either name.
C11_MachineTeamTable ==
    (app.fn = "isMachineTeam" /\ app.returned)
        => app.res = (<<app.arg.type, app.arg.name>> \in
                        { <<"machine", "machine-team">>,
                          <<"machine", "admin">>,
                          <<"system", "machine-team">> })

\* isMachineTeam has returned false for a system team with another name
C11_Witness ==
    /\ app.fn = "isMachineTeam" /\ app.returned
    /\ app.arg.type = "system" /\ app.arg.name # "machine-team"
    /\ app.res = FALSE

\* C12: once orgsMembersListCmd has built its indices, membershipUserIDs is
\* the set of the owners of the memberships in teams that are not
\* machine-owned, it is the key set of userTeamIdx, and userTeamIdx holds no
\* ID of a machine-owned team.
C12_IndexFilter ==
    IndexBuilt
        => /\ dv.membershipUserIDs = NonMachineOwners
           /\ DOMAIN dv.userTeamIdx = NonMachineOwners
           /\ \A u \in DOMAIN dv.userTeamIdx :
                 \A i \in DOMAIN dv.userTeamIdx[u] :
                    ~MachineOwnedID(dv.userTeamIdx[u][i])

\* the indices are built from memberships of two users, one of them with
\* memberships in machine-owned teams only: that user is in neither index
C12_Witness ==
    /\ IndexBuilt
    /\ \E u, v \in Users :
          /\ \E i \in DOMAIN dv.memberships : dv.memberships[i].owner = u
          /\ NonMachineMemberships(u) = <<>>
          /\ u \notin dv.membershipUserIDs /\ u \notin DOMAIN dv.userTeamIdx
          /\ v \in dv.membershipUserIDs /\ v \in DOMAIN dv.userTeamIdx

\* C13: orgsMembersListCmd asks Profiles.ListByID for the users with a
\* membership in a team that is not machine-owned, each of them once and no
\* other user, and the table it prints has one row per profile returned, in
\* the order returned.
C13_ProfileRequest ==
    (cmd = "orgsMembersList" /\ calls["Profiles.ListByID"] = 1)
        => /\ Range(dv.userIDs) = NonMachineOwners
           /\ \A i, j \in DOMAIN dv.userIDs :
                 i # j => dv.userIDs[i] # dv.userIDs[j]
           /\ Rendered
                 => /\ Len(out.rows) = Len(dv.users)
                    /\ \A i \in DOMAIN out.rows : out.rows[i].user = dv.users[i]

\* memberships U1->A and U2->B with B a machine team: the request holds U1
\* only, and with U1's profile returned one row is printed
C13_Witness ==
    /\ cmd = "orgsMembersList" /\ Rendered
    /\ dv.memberships = <<[owner |-> "U1", team |-> "A"],
                          [owner |-> "U2", team |-> "B"]>>
    /\ dv.userIDs = <<"U1">>
    /\ dv.users = <<"U1">>
    /\ Len(out.rows) = 1 /\ out.rows[1].user = "U1"

\* C14: when its fetches succeeded, teamsListCmd prints one row for each
\* fetched team that is not machine-owned, in the order fetched, and no
\* other row; the row is marked as member iff the ID of its team is the team
\* ID of one of the memberships fetched for the session's user.
C14_TeamRows ==
    (cmd = "teamsList" /\ mpc = "done" /\ failed = {})
        => LET shown == SelectSeq(dv.teams, LAMBDA t : ~MachineOwned(t)) IN
           /\ Rendered
           /\ Len(out.rows) = Len(shown)
           /\ \A i \in DOMAIN shown :
                 /\ out.rows[i].name = shown[i].name
                 /\ out.rows[i].type = shown[i].type
                 /\ out.rows[i].isMember
                       <=> \E k \in DOMAIN dv.memberships :
                              dv.memberships[k].team = shown[i].id

\* teams A (user), B (machine) and C (system, reserved name), U1 is in A:
\* the one row is A, marked as member
C14_Witness ==
    /\ cmd = "teamsList" /\ Rendered
    /\ [i \in DOMAIN dv.teams |-> dv.teams[i].id] = <<"A", "B", "C">>
    /\ dv.session.user = "U1"
    /\ dv.memberships = <<[owner |-> "U1", team |-> "A"]>>
    /\ out.rows = <<[name |-> "admin", type |-> "user", isMember |-> TRUE]>>
    /\ out.summary = 1

\* C15: the count in the summary line of a list view is the number of rows
\* of the table printed above it.
C15_SummaryCount ==
    (cmd \in {"teamsList", "teamMembersList", "orgsMembersList"} /\ Rendered)
        => out.summary = Len(out.rows)

C17_IndexOrder ==
    IndexBuilt
        => \A u \in Users :
              LET ms == NonMachineMemberships(u) IN
              IF ms = <<>> THEN u \notin DOMAIN dv.userTeamIdx
              ELSE /\ u \in DOMAIN dv.userTeamIdx
                   /\ dv.userTeamIdx[u] = [i \in DOMAIN ms |-> ms[i].team]

\* U1 is in D, in the machine team B and in A, fetched in that order: the
\* entry of U1 is D, A
C17_Witness ==
    /\ IndexBuilt
    /\ dv.memberships = <<[owner |-> "U1", team |-> "D"],
                          [owner |-> "U1", team |-> "B"],
                          [owner |-> "U1", team |-> "A"]>>
    /\ dv.userTeamIdx["U1"] = <<"D", "A">>

\* C18: in the table of teamMembersListCmd and of orgsMembersListCmd a row
\* is marked as the current actor iff its profile is the one of the
\* session's user, and at most one row is marked.
C18_CurrentActor ==
    (cmd \in {"teamMembersList", "orgsMembersList"} /\ Rendered)
        => /\ \A i \in DOMAIN out.rows :
                 out.rows[i].me <=> dv.users[i] = dv.session.user
           /\ Cardinality({i \in DOMAIN out.rows : out.rows[i].me}) <= 1

\* orgsMembersListCmd has printed two rows, the second one is marked
C18_Witness ==
    /\ cmd = "orgsMembersList" /\ Rendered
    /\ Len(out.rows) = 2
    /\ ~out.rows[1].me /\ out.rows[2].me
    /\ dv.users[2] = dv.session.user

\* C19 as stated: when teamsListCmd is done, Session.Who, Teams.GetByOrg and
\* Memberships.List have each been issued exactly once.
C19_ExactlyOnce ==
    (cmd = "teamsList" /\ mpc = "done")
        => /\ calls["Session.Who"] = 1
           /\ calls["Teams.GetByOrg"] = 1
           /\ calls["Memberships.List"] = 1

\* C19: no remote call is issued twice in one invocation; when the caller
\* of teamsListCmd or orgsMembersListCmd has joined, every fetch has issued
\* its call once, failed or not, except the dependent Memberships.List of
\* teamsListCmd, which is issued once when Session.Who succeeded and not at
\* all when it failed.
C19_NoRetry ==
    /\ \A c \in CallNames : calls[c] <= 1
    /\ (cmd = "teamsList" /\ mpc = "done")
          => /\ calls["Session.Who"] = 1
             /\ calls["Teams.GetByOrg"] = 1
             /\ calls["Memberships.List"] = IF 1 \in failed THEN 0 ELSE 1
    /\ (cmd = "orgsMembersList" /\ mpc = "done")
          => /\ calls["Teams.List"] = 1
             /\ calls["Memberships.List"] = 1
             /\ calls["Session.Who"] = 1

\* teamsListCmd is done, Teams.GetByOrg and Memberships.List have failed and
\* each has been issued once
C19_Witness ==
    /\ cmd = "teamsList" /\ mpc = "done"
    /\ failed = {2, 3}
    /\ calls["Teams.GetByOrg"] = 1 /\ calls["Memberships.List"] = 1

\* C20: u.Child(indent) returns a UI with the Cols, EnableProgress,
\* EnableHints and EnableColors of u and with the Indent of u plus indent,
\* and leaves u as it was.
C20_ChildSettings ==
    (app.fn = "Child" /\ app.returned)
        => /\ app.res.child =
                 [app.arg.u EXCEPT !.Indent = @ + app.arg.indent]
           /\ app.res.u = app.arg.u

\* C21: when Session.Who failed in teamsListCmd and the caller has passed
\* display.Wait(), memberOf is empty, sErr holds the error of the session
\* goroutine, and the dependent goroutine has written no shared variable and
\* has called display.Done().
C21_DependentFrame ==
    (/\ cmd = "teamsList" /\ 1 \in failed
     /\ [w |-> Caller, b |-> "display"] \in joined)
        => /\ dv.memberOf = {}
           /\ ev.sErr = Err(1, "Session.Who")
           /\ \A v \in SharedVars : 3 \notin writers[v]
           /\ signals[3] = 1

\* Session.Who failed, Teams.GetByOrg returned a team, and the caller has
\* passed display.Wait() and checked the error slots
C21_Witness ==
    /\ cmd = "teamsList" /\ 1 \in failed /\ 2 \notin failed
    /\ dv.teams # <<>>
    /\ [w |-> Caller, b |-> "display"] \in joined
    /\ mpc = "done" /\ pc[3] = "done"

\* C22: Memberships.Create and Memberships.Delete are issued at most once,
\* after wait.Wait() has returned to the caller and after Orgs.GetByName,
\* Teams.GetByName and Profiles.ListByName have all succeeded; Delete is
\* issued only after the user has confirmed and Memberships.List has found a
\* row; Teams.GetByName is not issued when Orgs.GetByName failed, and oErr
\* and tErr are never both set.
C22_MutationGuard ==
    cmd \in {"teamsAdd", "teamsRemove"} =>
        LET mutations == calls["Memberships.Create"]
                         + calls["Memberships.Delete"] IN
        /\ mutations <= 1
        /\ mutations = 1
              => /\ [w |-> Caller, b |-> "wait"] \in joined
                 /\ failed = {}
                 /\ calls["Orgs.GetByName"] = 1
                 /\ calls["Teams.GetByName"] = 1
                 /\ calls["Profiles.ListByName"] = 1
                 /\ dv.org # "nil" /\ dv.team # "nil" /\ dv.user # "nil"
        /\ calls["Memberships.Delete"] = 1
              => /\ calls["Memberships.List"] = 1
                 /\ \A i \in DOMAIN ret.errs :
                       ret.errs[i].msg \notin
                          {"Failed to retrieve confirmation", "ErrAbort",
                           "Memberships not found."}
        /\ ev.oErr # Nil => calls["Teams.GetByName"] = 0
        /\ ev.oErr = Nil \/ ev.tErr = Nil

\* teamsRemoveCmd has issued Memberships.Delete after three lookups that
\* succeeded, and the deletion has failed
C22_Witness ==
    /\ cmd = "teamsRemove" /\ mpc = "done"
    /\ calls["Memberships.Delete"] = 1
    /\ failed = {}
    /\ ret = Returned(Err(Caller, "Failed to remove team member."))

\* C23: orgsListCmd prints one line for each org fetched and no other line:
\* the org named like the user of the session is printed with the personal
\* label, every other org without it, and the count of the summary is the
\* number of orgs fetched.
C23_OrgsOnce ==
    (cmd = "orgsList" /\ Rendered)
        => /\ Len(out.rows) = Len(dv.orgs)
           /\ out.summary = Len(dv.orgs)
           /\ \A k \in DOMAIN dv.orgs :
                 Cardinality({i \in DOMAIN out.rows :
                                out.rows[i].name = dv.orgs[k]}) = 1
           /\ \A i \in DOMAIN out.rows :
                 out.rows[i].personal
                    <=> /\ dv.session.type = "user"
                        /\ out.rows[i].name = dv.session.user

\* the personal org is the second of three orgs: it is printed first, with
\* the label, and the two others after it
C23_Witness ==
    /\ cmd = "orgsList" /\ Rendered
    /\ dv.orgs = <<"acme", "U1", "beta">>
    /\ dv.session = [user |-> "U1", type |-> "user"]
    /\ out.rows = <<[name |-> "U1", personal |-> TRUE],
                    [name |-> "acme", personal |-> FALSE],
                    [name |-> "beta", personal |-> FALSE]>>

\* C24: when orgsMembersListCmd has fetched the profiles, every profile
\* returned has a non-empty entry in userTeamIdx, the loop over the profiles
\* does not panic, and every row printed names at least one team.
C24_RowsHaveTeams ==
    (cmd = "orgsMembersList" /\ mpc = "done"
     /\ calls["Profiles.ListByID"] = 1 /\ ev.err = Nil
     /\ ret # Returned(Err(Caller, "User not found.")))
        => /\ ret # Panicked
           /\ \A i \in DOMAIN dv.users :
                 /\ dv.users[i] \in DOMAIN dv.userTeamIdx
                 /\ dv.userTeamIdx[dv.users[i]] # <<>>
           /\ \A i \in DOMAIN out.rows : out.rows[i].teams # <<>>

====
